---- MODULE Spec2Model ----
(***************************************************************************)
(* Model of ai-service/training_orchestrator.py: TrainingOrchestrator, the *)
(* supervisor of the MusicGen training job with its Week 5 Go/No-Go        *)
(* milestone.                                                              *)
(*                                                                         *)
(* Number encoding (Python floats become exact scaled integers):           *)
(*   validation loss        tenths          2.9    -> 29                   *)
(*   authenticity           hundredths      0.35   -> 35                   *)
(*   money                  cents           $600   -> 60000                *)
(*   wall-clock time        hours           (time.time() / 3600)           *)
(* float('inf') is the integer Inf, larger than every finite value of the  *)
(* model, so <, > and max() treat it as Python treats +infinity.           *)
(* Python's None is the empty sequence, a present value v is <<v>>.        *)
(*                                                                         *)
(* Environment: time.time() never goes back; writes to the checkpoint      *)
(* directory succeed; the child hands over one line at a time and may end  *)
(* at any moment; the operator's interrupt may arrive at any statement of  *)
(* the try block of run_training_loop.                                     *)
(***************************************************************************)
EXTENDS Integers, Sequences, FiniteSets, TLC

VARIABLES
    pc,                  \* position of the orchestrator's single control thread
    config,              \* self.config
    training_start_time, \* self.training_start_time (None or <<hours>>)
    now,                 \* last value returned by time.time(), in hours
    current_epoch,       \* self.current_epoch
    global_step,         \* self.global_step
    best_val_loss,       \* self.best_val_loss
    week_5_metrics,      \* self.week_5_metrics (None or <<snapshot>>)
    line,                \* loop variable of run_training_loop (None or <<line>>)
    metrics,             \* local `metrics` of check_week_5_milestone / argument of the decision
    decision,            \* local `decision` of check_week_5_milestone
    failures,            \* local `failures` of make_go_nogo_decision at its return
    warnings,            \* local `warnings` of make_go_nogo_decision at its return
    child,               \* the Training Job process: "none", "running", "exited"
    returncode,          \* process.returncode (None or <<code>>)
    writer,              \* observations sent to the SummaryWriter, in order
    metrics_file,        \* week_5_metrics.json (None or <<content>>)
    abort_report,        \* abort_report.json (None or <<content>>)
    checkpoint,          \* orchestrator_state.json (None or <<content>>)
    exit_code,           \* exit status of the orchestrator process (None or <<code>>)
    n_lines,             \* number of lines the child has emitted so far
    n_evaluations,       \* history: calls of evaluate_week_5_performance
    n_decisions,         \* history: calls of make_go_nogo_decision
    interrupt_received,  \* history: a KeyboardInterrupt was raised
    config_file,         \* the file named by --config, as main finds it
    resume,              \* args.resume
    training_result,     \* outcome logged after process.wait(): "none", "failed", "completed"
    jobs,                \* main.py: the dict `jobs`, job ids being 1, 2, ... in order of creation
    tasks,               \* main.py: the background task of each job: its kind, position and exception
    loop,                \* main.py: the job whose task holds the event loop, 0 when it is free
    response,            \* main.py: the last answer of GET /status/{job_id} (None before the first)
    models_ready         \* main.py: MODELS_AVAILABLE and ai_models.initialized

vars == << pc, config, training_start_time, now, current_epoch, global_step,
           best_val_loss, week_5_metrics, line, metrics, decision, failures,
           warnings, child, returncode, writer, metrics_file, abort_report,
           checkpoint, exit_code, n_lines, n_evaluations, n_decisions,
           interrupt_received, config_file, resume, training_result,
           jobs, tasks, loop, response, models_ready >>

\* the state of the HTTP service (main.py)
service == << jobs, tasks, loop, response, models_ready >>

history == << n_evaluations, n_decisions, interrupt_received >>

----------------------------------------------------------------------------
(* Bounds of the model *)

\* lines the Training Job emits in a full run
MaxLines == 3

\* lines the Training Job emits in a run that only monitors (SpecMonitor)
MaxMonitored == 4

----------------------------------------------------------------------------
(* Values *)

None == << >>

Some(v) == << v >>

\* main.py is a separate program: while the orchestrator runs, no request has
\* been made of the service
ServiceDown ==
    /\ jobs = << >>
    /\ tasks = << >>
    /\ loop = 0
    /\ response = None
    /\ models_ready = FALSE

Inf == 1000000

HoursPerDay == 24

Range(s) == { s[i] : i \in DOMAIN s }

Merge(base, custom) ==
    [ k \in (DOMAIN base) \cup (DOMAIN custom) |->
        IF k \in DOMAIN custom THEN custom[k] ELSE base[k] ]

----------------------------------------------------------------------------
(* Configuration: load_config *)

\* mutant: a default budget of $2000
DefaultConfig_LargeBudget ==
    [ gpu_cost_per_hour     |-> 130,
      week_5_threshold_days |-> 35,
      go_nogo_thresholds    |-> [ min_authenticity_score |-> 35,
                                  max_cost_usd           |-> 200000,
                                  max_val_loss           |-> 35 ] ]

DefaultConfig ==
    [ gpu_cost_per_hour     |-> 130,
      week_5_threshold_days |-> 35,
      go_nogo_thresholds    |-> [ min_authenticity_score |-> 35,
                                  max_cost_usd           |-> 60000,
                                  max_val_loss           |-> 35 ] ]

\* dict.update: a shallow overlay of the override file on the defaults
LoadConfig(custom) == Merge(DefaultConfig, custom)

\* the override files of the model; << >> stands for "no --config given"
Overrides ==
    { << >>,
      [ week_5_threshold_days |-> 1 ],
      [ week_5_threshold_days |-> 1, gpu_cost_per_hour |-> 2100 ],
      [ week_5_threshold_days |-> 1,
        go_nogo_thresholds |-> [ max_cost_usd |-> 100000 ] ] }

ThresholdKeys == { "min_authenticity_score", "max_cost_usd", "max_val_loss" }

----------------------------------------------------------------------------
(* Output lines of the Training Job, as '|'-separated segments.  A segment *)
(* is the label it contains, whether its value converts (int()/float()     *)
(* succeed) and the converted value.                                       *)

Seg(label, ok, v) == [ label |-> label, ok |-> ok, v |-> v ]

\* "Epoch 5/20 | Step 1500 | Loss: 2.345 | Val Loss: 2.567"
LogLine(e, s, v) ==
    << Seg("Epoch", TRUE, e), Seg("Step", TRUE, s), Seg("Loss", TRUE, 0),
       Seg("Val Loss", TRUE, v) >>

\* "Epoch 1/20 | Batch 0/100 | Loss: 2.3450 | LR: 1.00e-05" (train_musicgen.py)
ProgressLine(e) ==
    << Seg("Epoch", TRUE, e), Seg("Batch", TRUE, 0), Seg("Loss", TRUE, 0),
       Seg("LR", TRUE, 0) >>

\* the metric lines of a training job: validation loss 4.0, 3.2, 3.6, 2.9
LogLines ==
    { LogLine(1, 100, 40), LogLine(1, 200, 32),
      LogLine(2, 300, 36), LogLine(2, 400, 29) }

OtherLines ==
    { << Seg("Other", TRUE, 0) >>,
      \* "Epoch 3/20 | Step abc | Val Loss: 2.5"
      << Seg("Epoch", TRUE, 3), Seg("Step", FALSE, 0), Seg("Val Loss", TRUE, 25) >>,
      \* "Epoch 3/20 | Val Loss: 2.5"  (no Step segment)
      << Seg("Epoch", TRUE, 3), Seg("Val Loss", TRUE, 25) >>,
      \* "Step 500 | Val Loss: n/a"
      << Seg("Step", TRUE, 500), Seg("Val Loss", FALSE, 0) >> }

Lines == LogLines \cup { ProgressLine(1) } \cup OtherLines

\* the values time.time() returns, in hours
TimePoints == { 24, 48, 72, 864 }

----------------------------------------------------------------------------
(* parse_training_metrics *)

HasLabel(l, labels) == \E i \in DOMAIN l : l[i].label \in labels

\* mutant: the guard looks for 'Loss' only
LineMatches_LossOnly(l) == HasLabel(l, {"Loss", "Val Loss"})

\* 'Step' in log_line and 'Loss' in log_line
LineMatches(l) == HasLabel(l, {"Step"}) /\ HasLabel(l, {"Loss", "Val Loss"})

\* mutant: the comparison with the best value so far is dropped
UpdateBest_Latest(best, v) == v

\* if val_loss < self.best_val_loss: self.best_val_loss = val_loss
UpdateBest(best, v) == IF v < best THEN v ELSE best

\* mutant: the observation is sent without the step
Observation_NoStep(st, v) == << 0, v >>

\* self.writer.add_scalar('Loss/validation', val_loss, self.global_step)
Observation(st, v) == << st.step, v >>

\* the training state the parser reads and writes
ParserState == [ epoch |-> current_epoch, step |-> global_step,
                 best |-> best_val_loss, sink |-> writer ]

\* for part in parts: the parts are handled left to right; a conversion that
\* raises leaves the loop (the except clause swallows it) and keeps what the
\* earlier parts assigned.
RECURSIVE ParseParts(_, _)
ParseParts(parts, st) ==
    IF parts = << >> THEN st
    ELSE LET p == Head(parts) IN
         IF p.label = "Epoch"
         THEN IF p.ok THEN ParseParts(Tail(parts), [st EXCEPT !.epoch = p.v])
                      ELSE st
         ELSE IF p.label = "Step"
         THEN IF p.ok THEN ParseParts(Tail(parts), [st EXCEPT !.step = p.v])
                      ELSE st
         ELSE IF p.label = "Val Loss"
         THEN IF p.ok
              THEN ParseParts(Tail(parts),
                       [st EXCEPT !.sink = Append(@, Observation(st, p.v)),
                                  !.best = UpdateBest(@, p.v)])
              ELSE st
         ELSE ParseParts(Tail(parts), st)

ParseLine(l, st) == IF LineMatches(l) THEN ParseParts(l, st) ELSE st

\* int() or float() raises on some part of a line that passes the guard
ConversionRaises(l) ==
    /\ LineMatches(l)
    /\ \E i \in DOMAIN l : l[i].label \in { "Epoch", "Step", "Val Loss" } /\ ~l[i].ok

\* mutant: the exception of a conversion leaves parse_training_metrics
AfterParse_Propagates(l) == IF ConversionRaises(l) THEN "except" ELSE "check"

\* except Exception: pass -- the call returns to the loop whatever the line
\* was, and the loop goes on to check_week_5_milestone
AfterParse(l) == "check"

----------------------------------------------------------------------------
(* evaluate_week_5_performance and make_go_nogo_decision *)

Max(a, b) == IF a >= b THEN a ELSE b

\* mutant: the proxy falls three times as fast
EstimatedAuthenticity_Steep(best) == Max(0, 100 - 3 * best)

\* max(0.0, 1.0 - (self.best_val_loss / 10.0)), in hundredths
EstimatedAuthenticity(best) == Max(0, 100 - best)

\* mutant: the rate is applied to whole elapsed days
CostSoFar_PerDay(elapsed_hours, rate) == (elapsed_hours \div HoursPerDay) * rate

\* elapsed_hours * self.config['gpu_cost_per_hour'], in cents
CostSoFar(elapsed_hours, rate) == elapsed_hours * rate

\* the metrics dict; t1 and t2 are the two readings of time.time();
\* elapsed_days is kept as the fraction << hours, 24 >>
Snapshot(t1, t2) ==
    LET start == training_start_time[1]
        elapsed_hours == t1 - start
    IN [ elapsed_days           |-> << t2 - start, HoursPerDay >>,
         elapsed_hours          |-> elapsed_hours,
         cost_usd               |-> CostSoFar(elapsed_hours, config.gpu_cost_per_hour),
         current_epoch          |-> current_epoch,
         best_val_loss          |-> best_val_loss,
         estimated_authenticity |-> EstimatedAuthenticity(best_val_loss),
         global_step            |-> global_step ]

\* thresholds[...] raises KeyError when the key is absent
ThresholdsComplete(th) == ThresholdKeys \subseteq DOMAIN th

AuthenticityFails(m, th) == m.estimated_authenticity < th.min_authenticity_score

\* ... < thresholds['min_authenticity_score'] + 0.05
AuthenticityBorderline(m, th) == m.estimated_authenticity < th.min_authenticity_score + 5

CostFails(m, th) == m.cost_usd > th.max_cost_usd

\* ... > thresholds['max_cost_usd'] * 0.8
CostApproaching(m, th) == m.cost_usd * 10 > th.max_cost_usd * 8

\* mutant: an infinite best validation loss is not counted as a failure
ValLossFails_FiniteOnly(m, th) ==
    m.best_val_loss # Inf /\ m.best_val_loss > th.max_val_loss

ValLossFails(m, th) == m.best_val_loss > th.max_val_loss

\* mutant: the three checks chained with elif, only the first failure is kept
Failures_FirstOnly(m, th) ==
    IF AuthenticityFails(m, th) THEN << "Authenticity" >>
    ELSE IF CostFails(m, th) THEN << "Cost" >>
    ELSE IF ValLossFails(m, th) THEN << "Val loss" >>
    ELSE << >>

Failures(m, th) ==
    (IF AuthenticityFails(m, th) THEN << "Authenticity" >> ELSE << >>)
    \o (IF CostFails(m, th) THEN << "Cost" >> ELSE << >>)
    \o (IF ValLossFails(m, th) THEN << "Val loss" >> ELSE << >>)

\* mutant: the warning checks are plain ifs, not elifs of the failure checks
Warnings_Unconditional(m, th) ==
    (IF AuthenticityBorderline(m, th)
        THEN << "Authenticity borderline" >> ELSE << >>)
    \o (IF CostApproaching(m, th)
        THEN << "Cost approaching budget limit" >> ELSE << >>)

Warnings(m, th) ==
    (IF ~AuthenticityFails(m, th) /\ AuthenticityBorderline(m, th)
        THEN << "Authenticity borderline" >> ELSE << >>)
    \o (IF ~CostFails(m, th) /\ CostApproaching(m, th)
        THEN << "Cost approaching budget limit" >> ELSE << >>)

\* mutant: the warnings are not consulted
Decide_IgnoreWarnings(fs, ws) == IF fs # << >> THEN "NO-GO" ELSE "GO"

\* the decision logic at the end of make_go_nogo_decision
Decide(fs, ws) ==
    IF fs # << >> THEN "NO-GO"
    ELSE IF ws # << >> THEN "CONDITIONAL-GO"
    ELSE "GO"

----------------------------------------------------------------------------
(* The run: main, __init__, start_training, run_training_loop *)

\* the times at which a run may start
StartTimes == { 24 }

\* the statements inside the try block of run_training_loop
TryBlock == { "launch", "read", "parse", "check", "evaluate", "assign",
              "decide", "abort", "sys_exit", "wait" }

\* the file named by --config: whether config_path.exists(), whether open and
\* json.load succeed on it, and the object it holds
ConfigFile(exists, parses, content) ==
    [ exists |-> exists, parses |-> parses, content |-> content ]

\* no file (no --config, or a path that does not exist), a file holding one of
\* the overrides, a file that cannot be read or is not JSON
ConfigFiles ==
    { ConfigFile(FALSE, TRUE, << >>), ConfigFile(TRUE, FALSE, << >>) }
        \cup { ConfigFile(TRUE, TRUE, c) : c \in Overrides \ { << >> } }

\* load_config returns: the file is skipped, or it is opened and decoded
ConfigLoads(f) == ~f.exists \/ f.parses

\* custom_config of load_config (empty when the file is skipped)
CustomConfig(f) == IF f.exists THEN f.content ELSE << >>

\* main has parsed its arguments; the orchestrator is not constructed yet.
\* The attributes hold already the values __init__ gives them.
Fresh ==
    /\ pc = "main"
    /\ config = << >>
    /\ training_result = "none"
    /\ training_start_time = None
    /\ now = 24
    /\ current_epoch = 0
    /\ global_step = 0
    /\ best_val_loss = Inf
    /\ week_5_metrics = None
    /\ line = None
    /\ metrics = None
    /\ decision = "none"
    /\ failures = << >>
    /\ warnings = << >>
    /\ child = "none"
    /\ returncode = None
    /\ writer = << >>
    /\ metrics_file = None
    /\ abort_report = None
    /\ exit_code = None
    /\ n_lines = 0
    /\ n_evaluations = 0
    /\ n_decisions = 0
    /\ interrupt_received = FALSE

\* a first invocation: no --resume, no checkpoint file yet
Init ==
    /\ ServiceDown
    /\ Fresh
    /\ config_file \in ConfigFiles
    /\ resume = FALSE
    /\ checkpoint = None

\* orchestrator = TrainingOrchestrator(config_path=args.config)
Construct ==
    /\ pc = "main"
    /\ ConfigLoads(config_file)
    /\ config' = LoadConfig(CustomConfig(config_file))
    /\ pc' = "start"
    /\ UNCHANGED << training_start_time, now, current_epoch, global_step,
                    best_val_loss, week_5_metrics, line, metrics, decision,
                    failures, warnings, child, returncode, writer, metrics_file,
                    abort_report, checkpoint, exit_code, n_lines, history,
                    config_file, resume, training_result, service >>

\* open or json.load raises inside __init__: nothing catches the exception, the
\* interpreter prints the traceback and the process ends with status 1
ConstructFails ==
    /\ pc = "main"
    /\ ~ConfigLoads(config_file)
    /\ pc' = "exited"
    /\ exit_code' = Some(1)
    /\ UNCHANGED << config, training_start_time, now, current_epoch, global_step,
                    best_val_loss, week_5_metrics, line, metrics, decision,
                    failures, warnings, child, returncode, writer, metrics_file,
                    abort_report, checkpoint, n_lines, history,
                    config_file, resume, training_result, service >>

\* self.training_start_time = time.time()
StartTraining ==
    /\ pc = "start"
    /\ \E t \in StartTimes :
        /\ training_start_time' = Some(t)
        /\ now' = t
    /\ pc' = "launch"
    /\ UNCHANGED << config, current_epoch, global_step, best_val_loss,
                    week_5_metrics, line, metrics, decision, failures, warnings,
                    child, returncode, writer, metrics_file, abort_report,
                    checkpoint, exit_code, n_lines, history,
                    config_file, resume, training_result, service >>

\* if not training_script.exists(): logger.error(...); return
\* main then returns and the process ends with status 0
ScriptMissing ==
    /\ pc = "launch"
    /\ pc' = "exited"
    /\ exit_code' = Some(0)
    /\ UNCHANGED << config, training_start_time, now, current_epoch, global_step,
                    best_val_loss, week_5_metrics, line, metrics, decision,
                    failures, warnings, child, returncode, writer, metrics_file,
                    abort_report, checkpoint, n_lines, history,
                    config_file, resume, training_result, service >>

\* process = subprocess.Popen(cmd, stdout=PIPE, ...)
Launch ==
    /\ pc = "launch"
    /\ child' = "running"
    /\ pc' = "read"
    /\ UNCHANGED << config, training_start_time, now, current_epoch, global_step,
                    best_val_loss, week_5_metrics, line, metrics, decision,
                    failures, warnings, returncode, writer, metrics_file,
                    abort_report, checkpoint, exit_code, n_lines, history,
                    config_file, resume, training_result, service >>

\* for line in process.stdout: the child writes a line and the loop receives it
ReadLineFrom(output, budget) ==
    /\ pc = "read"
    /\ child = "running"
    /\ n_lines < budget
    /\ \E l \in output : line' = Some(l)
    /\ n_lines' = n_lines + 1
    /\ pc' = "parse"
    /\ UNCHANGED << config, training_start_time, now, current_epoch, global_step,
                    best_val_loss, week_5_metrics, metrics, decision, failures,
                    warnings, child, returncode, writer, metrics_file,
                    abort_report, checkpoint, exit_code, history,
                    config_file, resume, training_result, service >>

\* the child prints one of Lines
ReadLine(budget) == ReadLineFrom(Lines, budget)

\* the Training Job ends on its own and closes its output stream
ChildExit ==
    /\ child = "running"
    /\ child' = "exited"
    /\ \E rc \in { 0, 1 } : returncode' = Some(rc)
    /\ UNCHANGED << pc, config, training_start_time, now, current_epoch,
                    global_step, best_val_loss, week_5_metrics, line, metrics,
                    decision, failures, warnings, writer, metrics_file,
                    abort_report, checkpoint, exit_code, n_lines, history,
                    config_file, resume, training_result, service >>

\* the for loop ends when the stream is closed
EndOfStream ==
    /\ pc = "read"
    /\ child = "exited"
    /\ pc' = "wait"
    /\ UNCHANGED << config, training_start_time, now, current_epoch, global_step,
                    best_val_loss, week_5_metrics, line, metrics, decision,
                    failures, warnings, child, returncode, writer, metrics_file,
                    abort_report, checkpoint, exit_code, n_lines, history,
                    config_file, resume, training_result, service >>

\* if process.returncode != 0: logger.error(...) else: logger.info(...)
LoggedResult(rc) == IF rc # 0 THEN "failed" ELSE "completed"

\* mutant: a failed child is launched again
ProcessWait_Retry ==
    /\ pc = "wait"
    /\ training_result' = LoggedResult(returncode[1])
    /\ pc' = IF returncode[1] # 0 THEN "launch" ELSE "exited"
    /\ exit_code' = IF returncode[1] # 0 THEN exit_code ELSE Some(0)
    /\ UNCHANGED << config, training_start_time, now, current_epoch, global_step,
                    best_val_loss, week_5_metrics, line, metrics, decision,
                    failures, warnings, child, returncode, writer, metrics_file,
                    abort_report, checkpoint, n_lines, history, config_file, resume, service >>

\* mutant: a last milestone evaluation runs when the stream has ended
ProcessWait_FinalMilestone ==
    /\ pc = "wait"
    /\ training_result' = LoggedResult(returncode[1])
    /\ pc' = IF week_5_metrics = None THEN "evaluate" ELSE "exited"
    /\ exit_code' = IF week_5_metrics = None THEN exit_code ELSE Some(0)
    /\ UNCHANGED << config, training_start_time, now, current_epoch, global_step,
                    best_val_loss, week_5_metrics, line, metrics, decision,
                    failures, warnings, child, returncode, writer, metrics_file,
                    abort_report, checkpoint, n_lines, history, config_file, resume, service >>

\* process.wait(); the return code is logged; run_training_loop, start_training
\* and main return
ProcessWait ==
    /\ pc = "wait"
    /\ training_result' = LoggedResult(returncode[1])
    /\ pc' = "exited"
    /\ exit_code' = Some(0)
    /\ UNCHANGED << config, training_start_time, now, current_epoch, global_step,
                    best_val_loss, week_5_metrics, line, metrics, decision,
                    failures, warnings, child, returncode, writer, metrics_file,
                    abort_report, checkpoint, n_lines, history, config_file, resume, service >>

\* mutant: the line is handed to the parser only after the milestone check
ParseTrainingMetrics_Deferred ==
    /\ pc = "parse"
    /\ pc' = "check"
    /\ UNCHANGED << config, training_start_time, now, current_epoch, global_step,
                    best_val_loss, week_5_metrics, line, metrics, decision,
                    failures, warnings, child, returncode, writer, metrics_file,
                    abort_report, checkpoint, exit_code, n_lines, history,
                    config_file, resume, training_result, service >>

\* self.parse_training_metrics(line)
ParseTrainingMetrics ==
    /\ pc = "parse"
    /\ LET st == ParseLine(line[1], ParserState) IN
        /\ current_epoch' = st.epoch
        /\ global_step' = st.step
        /\ best_val_loss' = st.best
        /\ writer' = st.sink
    /\ pc' = AfterParse(line[1])
    /\ UNCHANGED << config, training_start_time, now, week_5_metrics, line,
                    metrics, decision, failures, warnings, child, returncode,
                    metrics_file, abort_report, checkpoint, exit_code, n_lines, history,
                    config_file, resume, training_result, service >>

----------------------------------------------------------------------------
(* check_week_5_milestone *)

\* mutant: elapsed hours compared with the threshold in days
ThresholdReached_Hours(t) ==
    t - training_start_time[1] >= config.week_5_threshold_days

\* elapsed_days >= self.config['week_5_threshold_days'], t in hours
ThresholdReached(t) ==
    t - training_start_time[1] >= config.week_5_threshold_days * HoursPerDay

\* mutant: the guard against a second evaluation is missing
AlreadyEvaluated_Never == FALSE

\* mutant: only a NO-GO snapshot stops the evaluation from running again
AlreadyEvaluated_OnlyAfterNoGo == week_5_metrics # None /\ decision = "NO-GO"

\* self.week_5_metrics is not None
AlreadyEvaluated == week_5_metrics # None

\* if self.week_5_metrics is not None: return
CheckAlreadyEvaluated ==
    /\ pc = "check"
    /\ AlreadyEvaluated
    /\ pc' = "read"
    /\ UNCHANGED << config, training_start_time, now, current_epoch, global_step,
                    best_val_loss, week_5_metrics, line, metrics, decision,
                    failures, warnings, child, returncode, writer, metrics_file,
                    abort_report, checkpoint, exit_code, n_lines, history,
                    config_file, resume, training_result, service >>

\* the elapsed time is below the threshold: the method returns
CheckBelowThreshold ==
    /\ pc = "check"
    /\ ~AlreadyEvaluated
    /\ \E t \in TimePoints :
        /\ t >= now
        /\ ~ThresholdReached(t)
        /\ now' = t
    /\ pc' = "read"
    /\ UNCHANGED << config, training_start_time, current_epoch, global_step,
                    best_val_loss, week_5_metrics, line, metrics, decision,
                    failures, warnings, child, returncode, writer, metrics_file,
                    abort_report, checkpoint, exit_code, n_lines, history,
                    config_file, resume, training_result, service >>

\* the elapsed time has reached the threshold: the evaluation starts
CheckThresholdReached ==
    /\ pc = "check"
    /\ ~AlreadyEvaluated
    /\ \E t \in TimePoints :
        /\ t >= now
        /\ ThresholdReached(t)
        /\ now' = t
    /\ pc' = "evaluate"
    /\ UNCHANGED << config, training_start_time, current_epoch, global_step,
                    best_val_loss, week_5_metrics, line, metrics, decision,
                    failures, warnings, child, returncode, writer, metrics_file,
                    abort_report, checkpoint, exit_code, n_lines, history,
                    config_file, resume, training_result, service >>

\* mutant: the snapshot is returned without being written to week_5_metrics.json
EvaluateWeek5Performance_NoWrite ==
    /\ pc = "evaluate"
    /\ \E t1, t2 \in TimePoints :
        /\ now <= t1
        /\ t1 <= t2
        /\ metrics' = Some(Snapshot(t1, t2))
        /\ now' = t2
    /\ n_evaluations' = n_evaluations + 1
    /\ pc' = "assign"
    /\ UNCHANGED << config, training_start_time, current_epoch, global_step,
                    best_val_loss, week_5_metrics, line, decision, failures,
                    warnings, child, returncode, writer, metrics_file, abort_report,
                    checkpoint, exit_code, n_lines, n_decisions,
                    interrupt_received, config_file, resume, training_result, service >>

\* metrics = self.evaluate_week_5_performance(): builds the dict and writes
\* week_5_metrics.json
EvaluateWeek5Performance ==
    /\ pc = "evaluate"
    /\ \E t1, t2 \in TimePoints :
        /\ now <= t1
        /\ t1 <= t2
        /\ metrics' = Some(Snapshot(t1, t2))
        /\ now' = t2
    /\ metrics_file' = metrics'
    /\ n_evaluations' = n_evaluations + 1
    /\ pc' = "assign"
    /\ UNCHANGED << config, training_start_time, current_epoch, global_step,
                    best_val_loss, week_5_metrics, line, decision, failures,
                    warnings, child, returncode, writer, abort_report,
                    checkpoint, exit_code, n_lines, n_decisions,
                    interrupt_received, config_file, resume, training_result, service >>

\* self.week_5_metrics = metrics
AssignWeek5Metrics ==
    /\ pc = "assign"
    /\ week_5_metrics' = metrics
    /\ pc' = "decide"
    /\ UNCHANGED << config, training_start_time, now, current_epoch, global_step,
                    best_val_loss, line, metrics, decision, failures, warnings,
                    child, returncode, writer, metrics_file, abort_report,
                    checkpoint, exit_code, n_lines, history,
                    config_file, resume, training_result, service >>

\* mutant: every decision but GO aborts
AfterDecision_AbortUnlessGo(d) == IF d = "GO" THEN "read" ELSE "abort"

\* the branch of check_week_5_milestone on the decision: only NO-GO calls
\* abort_training, GO and CONDITIONAL-GO return to the loop
AfterDecision(d) == IF d = "NO-GO" THEN "abort" ELSE "read"

\* decision = self.make_go_nogo_decision(metrics), and the branch on it
MakeGoNogoDecision ==
    /\ pc = "decide"
    /\ ThresholdsComplete(config.go_nogo_thresholds)
    /\ LET m  == metrics[1]
           th == config.go_nogo_thresholds
           fs == Failures(m, th)
           ws == Warnings(m, th)
       IN /\ failures' = fs
          /\ warnings' = ws
          /\ decision' = Decide(fs, ws)
          /\ pc' = AfterDecision(Decide(fs, ws))
    /\ n_decisions' = n_decisions + 1
    /\ UNCHANGED << config, training_start_time, now, current_epoch, global_step,
                    best_val_loss, week_5_metrics, line, metrics, child,
                    returncode, writer, metrics_file, abort_report, checkpoint,
                    exit_code, n_lines, n_evaluations, interrupt_received,
                    config_file, resume, training_result, service >>

\* thresholds[key] raises KeyError: the exception leaves the for loop and is
\* caught by `except Exception` in run_training_loop
DecisionRaises ==
    /\ pc = "decide"
    /\ ~ThresholdsComplete(config.go_nogo_thresholds)
    /\ pc' = "except"
    /\ n_decisions' = n_decisions + 1
    /\ UNCHANGED << config, training_start_time, now, current_epoch, global_step,
                    best_val_loss, week_5_metrics, line, metrics, decision,
                    failures, warnings, child, returncode, writer, metrics_file,
                    abort_report, checkpoint, exit_code, n_lines, n_evaluations,
                    interrupt_received, config_file, resume, training_result, service >>

\* mutant: abort_training exits without writing the report
AbortTraining_NoReport ==
    /\ pc = "abort"
    /\ pc' = "sys_exit"
    /\ UNCHANGED << config, training_start_time, now, current_epoch, global_step,
                    best_val_loss, week_5_metrics, line, metrics, decision,
                    failures, warnings, child, returncode, writer, metrics_file,
                    abort_report, checkpoint, exit_code, n_lines, history,
                    config_file, resume, training_result, service >>

\* abort_training(metrics): writes abort_report.json
AbortTraining ==
    /\ pc = "abort"
    /\ abort_report' = Some([ reason  |-> "Week 5 metrics below threshold",
                              metrics |-> metrics[1] ])
    /\ pc' = "sys_exit"
    /\ UNCHANGED << config, training_start_time, now, current_epoch, global_step,
                    best_val_loss, week_5_metrics, line, metrics, decision,
                    failures, warnings, child, returncode, writer, metrics_file,
                    checkpoint, exit_code, n_lines, history,
                    config_file, resume, training_result, service >>

\* sys.exit(1): SystemExit is not an Exception, no handler of
\* run_training_loop catches it and the process ends with status 1
SysExit ==
    /\ pc = "sys_exit"
    /\ pc' = "exited"
    /\ exit_code' = Some(1)
    /\ UNCHANGED << config, training_start_time, now, current_epoch, global_step,
                    best_val_loss, week_5_metrics, line, metrics, decision,
                    failures, warnings, child, returncode, writer, metrics_file,
                    abort_report, checkpoint, n_lines, history,
                    config_file, resume, training_result, service >>

----------------------------------------------------------------------------
(* The handlers of run_training_loop and save_checkpoint *)

\* the operator's interrupt reaches the control thread inside the try block
KeyboardInterrupt ==
    /\ pc \in TryBlock
    /\ pc' = "interrupted"
    /\ interrupt_received' = TRUE
    /\ UNCHANGED << config, training_start_time, now, current_epoch, global_step,
                    best_val_loss, week_5_metrics, line, metrics, decision,
                    failures, warnings, child, returncode, writer, metrics_file,
                    abort_report, checkpoint, exit_code, n_lines, n_evaluations,
                    n_decisions, config_file, resume, training_result, service >>

\* the checkpoint dict of save_checkpoint, t being the reading of time.time()
CheckpointRecord(interrupted, t) ==
    [ timestamp      |-> t,
      current_epoch  |-> current_epoch,
      global_step    |-> global_step,
      best_val_loss  |-> best_val_loss,
      elapsed_time   |-> IF training_start_time # None
                            THEN t - training_start_time[1] ELSE 0,
      interrupted    |-> interrupted,
      week_5_metrics |-> week_5_metrics ]

\* self.save_checkpoint(interrupted=...), after which run_training_loop,
\* start_training and main return
SaveCheckpoint(interrupted) ==
    /\ \E t \in TimePoints :
        /\ t >= now
        /\ now' = t
        /\ checkpoint' = Some(CheckpointRecord(interrupted, t))
    /\ pc' = "exited"
    /\ exit_code' = Some(0)
    /\ UNCHANGED << config, training_start_time, current_epoch, global_step,
                    best_val_loss, week_5_metrics, line, metrics, decision,
                    failures, warnings, child, returncode, writer, metrics_file,
                    abort_report, n_lines, history,
                    config_file, resume, training_result, service >>

\* mutant: the handler saves with the default flag
HandleInterrupt_DefaultFlag ==
    /\ pc = "interrupted"
    /\ SaveCheckpoint(FALSE)

\* mutant: the handler goes back to the loop
HandleInterrupt_Resume ==
    /\ pc = "interrupted"
    /\ pc' = "read"
    /\ UNCHANGED << config, training_start_time, now, current_epoch, global_step,
                    best_val_loss, week_5_metrics, line, metrics, decision,
                    failures, warnings, child, returncode, writer, metrics_file,
                    abort_report, checkpoint, exit_code, n_lines, history,
                    config_file, resume, training_result, service >>

\* what a later invocation reads back from orchestrator_state.json: main parses
\* --resume and never uses it, and no statement of the orchestrator opens the
\* checkpoint file for reading, so nothing is ever loaded
LoadCheckpoint == None

\* except KeyboardInterrupt: self.save_checkpoint(interrupted=True)
HandleInterrupt ==
    /\ pc = "interrupted"
    /\ SaveCheckpoint(TRUE)

\* mutant: an error is not saved as an interruption
HandleException_DefaultFlag ==
    /\ pc = "except"
    /\ SaveCheckpoint(FALSE)

\* except Exception as e: self.save_checkpoint(interrupted=True)
HandleException ==
    /\ pc = "except"
    /\ SaveCheckpoint(TRUE)

----------------------------------------------------------------------------

Next ==
    \/ Construct
    \/ ConstructFails
    \/ StartTraining
    \/ ScriptMissing
    \/ Launch
    \/ ReadLine(MaxLines)
    \/ ChildExit
    \/ EndOfStream
    \/ ProcessWait
    \/ ParseTrainingMetrics
    \/ CheckAlreadyEvaluated
    \/ CheckBelowThreshold
    \/ CheckThresholdReached
    \/ EvaluateWeek5Performance
    \/ AssignWeek5Metrics
    \/ MakeGoNogoDecision
    \/ DecisionRaises
    \/ AbortTraining
    \/ SysExit
    \/ KeyboardInterrupt
    \/ HandleInterrupt
    \/ HandleException

Spec == Init /\ [][Next]_vars

----------------------------------------------------------------------------
(* A run under the built-in configuration that is only monitored: it is    *)
(* neither interrupted nor old enough for the milestone, and emits up to   *)
(* MaxMonitored lines.                                                     *)

InitMonitor == Init /\ config_file = ConfigFile(FALSE, TRUE, << >>)

NextMonitor ==
    \/ Construct
    \/ StartTraining
    \/ Launch
    \/ ReadLine(MaxMonitored)
    \/ ChildExit
    \/ EndOfStream
    \/ ProcessWait
    \/ ParseTrainingMetrics
    \/ CheckBelowThreshold

SpecMonitor == InitMonitor /\ [][NextMonitor]_vars

----------------------------------------------------------------------------
(* make_go_nogo_decision called on an arbitrary metrics dict: the          *)
(* orchestrator has been constructed and the method is applied to a        *)
(* snapshot drawn from MetricSamples.                                      *)

MetricSample(a, c, v) ==
    [ elapsed_days           |-> << 840, HoursPerDay >>,
      elapsed_hours          |-> 840,
      cost_usd               |-> c,
      current_epoch          |-> 1,
      best_val_loss          |-> v,
      estimated_authenticity |-> a,
      global_step            |-> 100 ]

MetricSamples ==
    { MetricSample(a, c, v) :
        a \in { 30, 34, 35, 39, 40, 50, 60 },
        c \in { 10000, 48000, 48001, 50000, 55000, 60000, 60001 },
        v \in { 15, 20, 30, 35, 36 } }

DecisionOverrides ==
    { << >>,
      [ go_nogo_thresholds |-> [ min_authenticity_score |-> 50,
                                 max_cost_usd           |-> 50000,
                                 max_val_loss           |-> 20 ] ],
      [ go_nogo_thresholds |-> [ max_cost_usd |-> 100000 ] ] }

InitDecision ==
    /\ ServiceDown
    /\ pc = "decide"
    /\ config \in { LoadConfig(c) : c \in DecisionOverrides }
    /\ metrics \in { Some(m) : m \in MetricSamples }
    /\ training_start_time = None
    /\ now = 24
    /\ current_epoch = 0
    /\ global_step = 0
    /\ best_val_loss = Inf
    /\ week_5_metrics = None
    /\ line = None
    /\ decision = "none"
    /\ failures = << >>
    /\ warnings = << >>
    /\ child = "none"
    /\ returncode = None
    /\ writer = << >>
    /\ metrics_file = None
    /\ abort_report = None
    /\ checkpoint = None
    /\ exit_code = None
    /\ n_lines = 0
    /\ n_evaluations = 0
    /\ n_decisions = 0
    /\ interrupt_received = FALSE
    /\ config_file = ConfigFile(FALSE, TRUE, << >>)
    /\ resume = FALSE
    /\ training_result = "none"

NextDecision ==
    \/ MakeGoNogoDecision
    \/ DecisionRaises

SpecDecision == InitDecision /\ [][NextDecision]_vars

----------------------------------------------------------------------------
(* An invocation with --resume after an interrupted run left its           *)
(* checkpoint: the run is constructed and monitored below the milestone.   *)

\* orchestrator_state.json as an interrupted run wrote it after
\* "Epoch 2/20 | Step 300 | ... | Val Loss: 3.6" following a best of 3.2
PriorCheckpoint ==
    [ timestamp      |-> 48,
      current_epoch  |-> 2,
      global_step    |-> 300,
      best_val_loss  |-> 32,
      elapsed_time   |-> 24,
      interrupted    |-> TRUE,
      week_5_metrics |-> None ]

InitResume ==
    /\ ServiceDown
    /\ Fresh
    /\ config_file = ConfigFile(FALSE, TRUE, << >>)
    /\ resume = TRUE
    /\ checkpoint = Some(PriorCheckpoint)

NextResume ==
    \/ Construct
    \/ StartTraining
    \/ Launch
    \/ ReadLine(MaxLines)
    \/ ChildExit
    \/ EndOfStream
    \/ ProcessWait
    \/ ParseTrainingMetrics
    \/ CheckBelowThreshold

SpecResume == InitResume /\ [][NextResume]_vars

----------------------------------------------------------------------------
(* save_checkpoint statement by statement, in a run that finds the         *)
(* checkpoint of an earlier run: open(checkpoint_path, 'w') truncates the  *)
(* file, json.dump then writes the new record, and the process can be      *)
(* stopped in between.                                                     *)

\* the content of the file between open(..., 'w') and the end of json.dump:
\* a prefix of the new record, possibly nothing
Truncated == << [ partial |-> TRUE ] >>

\* save_checkpoint up to `with open(checkpoint_path, 'w') as f`: the dict is
\* built (the clock is read) and the file is truncated
OpenCheckpointFile ==
    /\ pc \in { "interrupted", "except" }
    /\ \E t \in TimePoints :
        /\ t >= now
        /\ now' = t
    /\ checkpoint' = Truncated
    /\ pc' = "saving"
    /\ UNCHANGED << config, training_start_time, current_epoch, global_step,
                    best_val_loss, week_5_metrics, line, metrics, decision,
                    failures, warnings, child, returncode, writer, metrics_file,
                    abort_report, exit_code, n_lines, history,
                    config_file, resume, training_result, service >>

\* json.dump(checkpoint, f, indent=2) completes, the file is closed and
\* run_training_loop, start_training and main return
DumpCheckpoint ==
    /\ pc = "saving"
    /\ checkpoint' = Some(CheckpointRecord(TRUE, now))
    /\ pc' = "exited"
    /\ exit_code' = Some(0)
    /\ UNCHANGED << config, training_start_time, now, current_epoch, global_step,
                    best_val_loss, week_5_metrics, line, metrics, decision,
                    failures, warnings, child, returncode, writer, metrics_file,
                    abort_report, n_lines, history,
                    config_file, resume, training_result, service >>

\* a second KeyboardInterrupt, raised inside save_checkpoint: the except
\* clauses of run_training_loop do not cover their own bodies, the exception
\* reaches the top level and the process dies of SIGINT (status 130)
InterruptedWhileSaving ==
    /\ pc = "saving"
    /\ pc' = "exited"
    /\ exit_code' = Some(130)
    /\ UNCHANGED << config, training_start_time, now, current_epoch, global_step,
                    best_val_loss, week_5_metrics, line, metrics, decision,
                    failures, warnings, child, returncode, writer, metrics_file,
                    abort_report, checkpoint, n_lines, history,
                    config_file, resume, training_result, service >>

InitSave ==
    /\ ServiceDown
    /\ Fresh
    /\ config_file \in ConfigFiles
    /\ resume = FALSE
    /\ checkpoint = Some(PriorCheckpoint)

NextSave ==
    \/ Construct
    \/ ConstructFails
    \/ StartTraining
    \/ ScriptMissing
    \/ Launch
    \/ ReadLine(MaxLines)
    \/ ChildExit
    \/ EndOfStream
    \/ ProcessWait
    \/ ParseTrainingMetrics
    \/ CheckAlreadyEvaluated
    \/ CheckBelowThreshold
    \/ CheckThresholdReached
    \/ EvaluateWeek5Performance
    \/ AssignWeek5Metrics
    \/ MakeGoNogoDecision
    \/ DecisionRaises
    \/ AbortTraining
    \/ SysExit
    \/ KeyboardInterrupt
    \/ OpenCheckpointFile
    \/ DumpCheckpoint
    \/ InterruptedWhileSaving

SpecSave == InitSave /\ [][NextSave]_vars

----------------------------------------------------------------------------
(* evaluate_week_5_performance on the first line of a run whose milestone  *)
(* threshold is 0 days: the snapshot is built from whatever the first line *)
(* left in the training state, after 0 hours or more.                      *)

\* validation losses the first line may carry: float() accepts any decimal,
\* a negative one included
EvaluatedLosses == { -5, 0, 29, 62, 70, 100, 150 }

\* the run started now or 10 hours ago
EvaluateStartTimes == { 14, 24 }

EvaluateOverrides ==
    { [ week_5_threshold_days |-> 0 ],
      [ week_5_threshold_days |-> 0, gpu_cost_per_hour |-> 2100 ],
      \* thresholds that no finite observation can breach
      [ week_5_threshold_days |-> 0,
        go_nogo_thresholds |-> [ min_authenticity_score |-> 0,
                                 max_cost_usd           |-> 100000000,
                                 max_val_loss           |-> 999999 ] ] }

\* the first line has been parsed and the threshold is reached
InitEvaluate ==
    /\ ServiceDown
    /\ pc = "evaluate"
    /\ \E c \in EvaluateOverrides :
        /\ config_file = ConfigFile(TRUE, TRUE, c)
        /\ config = LoadConfig(c)
    /\ training_start_time \in { Some(t) : t \in EvaluateStartTimes }
    /\ now = 24
    /\ \/ \E v \in EvaluatedLosses :
            /\ line = Some(LogLine(1, 100, v))
            /\ current_epoch = 1
            /\ global_step = 100
            /\ best_val_loss = v
            /\ writer = << << 100, v >> >>
       \/ /\ line = Some(ProgressLine(1))
          /\ current_epoch = 0
          /\ global_step = 0
          /\ best_val_loss = Inf
          /\ writer = << >>
    /\ week_5_metrics = None
    /\ metrics = None
    /\ decision = "none"
    /\ failures = << >>
    /\ warnings = << >>
    /\ child = "running"
    /\ returncode = None
    /\ metrics_file = None
    /\ abort_report = None
    /\ checkpoint = None
    /\ exit_code = None
    /\ n_lines = 1
    /\ n_evaluations = 0
    /\ n_decisions = 0
    /\ interrupt_received = FALSE
    /\ resume = FALSE
    /\ training_result = "none"

NextEvaluate ==
    \/ EvaluateWeek5Performance
    \/ AssignWeek5Metrics
    \/ MakeGoNogoDecision

SpecEvaluate == InitEvaluate /\ [][NextEvaluate]_vars

----------------------------------------------------------------------------
(* A monitored run whose child prints metric lines in either segment order *)
(* (the Step segment before or after the Val Loss segment).                *)

MaxSink == 3

\* "Val Loss: 3.6 | Step 300": the validation loss precedes the step
ReorderedLine(s, v) == << Seg("Val Loss", TRUE, v), Seg("Step", TRUE, s) >>

SinkLines ==
    { LogLine(1, 100, 40), LogLine(1, 200, 32), ReorderedLine(300, 36),
      << Seg("Step", TRUE, 500), Seg("Val Loss", FALSE, 0) >>,
      ProgressLine(1) }

NextSink ==
    \/ Construct
    \/ StartTraining
    \/ Launch
    \/ ReadLineFrom(SinkLines, MaxSink)
    \/ ChildExit
    \/ EndOfStream
    \/ ProcessWait
    \/ ParseTrainingMetrics
    \/ CheckBelowThreshold

SpecSink == InitMonitor /\ [][NextSink]_vars

----------------------------------------------------------------------------
(* A monitored run whose child is train_musicgen.py as it is: every line   *)
(* it prints during training is a progress line.                           *)

MaxProgress == 4

\* logger.info(f"Epoch {epoch+1}/{NUM_EPOCHS} | Batch ... | Loss: ... | LR: ...")
ProgressLines == { ProgressLine(1), ProgressLine(2) }

NextProgress ==
    \/ Construct
    \/ StartTraining
    \/ Launch
    \/ ReadLineFrom(ProgressLines, MaxProgress)
    \/ ChildExit
    \/ EndOfStream
    \/ ProcessWait
    \/ ParseTrainingMetrics
    \/ CheckBelowThreshold

SpecProgress == InitMonitor /\ [][NextProgress]_vars

----------------------------------------------------------------------------
(* Claims *)

\* the thresholds of the built-in configuration
DefaultThresholds == DefaultConfig.go_nogo_thresholds

\* a decision has been returned for the snapshot in `metrics`
Decided == decision # "none"

\* C1: the milestone evaluation (the snapshot of evaluate_week_5_performance
\* and the call of make_go_nogo_decision) happens at most once in a run, and
\* every call of check_week_5_milestone made after it returns to the loop
\* without a decision and without changing any state.
C1_MilestoneAtMostOnce ==
    /\ [](n_evaluations <= 1 /\ n_decisions <= 1)
    /\ [][ (pc = "check" /\ pc' # "check" /\ n_evaluations >= 1
                /\ ~interrupt_received')
             => /\ pc' = "read"
                /\ UNCHANGED << config, training_start_time, now, current_epoch,
                                global_step, best_val_loss, week_5_metrics,
                                metrics, decision, failures, warnings, writer,
                                metrics_file, abort_report, checkpoint,
                                exit_code, n_evaluations, n_decisions, service >> ]_vars

\* C1 witness: after a GO decision a later line has been parsed and checked
C1_Witness ==
    /\ pc = "read"
    /\ decision = "GO"
    /\ n_evaluations = 1
    /\ n_decisions = 1
    /\ week_5_metrics[1].global_step # global_step

\* elapsed hours at the last reading of the clock
ElapsedNow == now - training_start_time[1]

\* C2: while the elapsed time is strictly below week_5_threshold_days, every
\* call of check_week_5_milestone leaves the evaluator pending: week_5_metrics
\* is unset, no snapshot is written, make_go_nogo_decision is not invoked.
C2_PendingBelowThreshold ==
    (training_start_time # None
        /\ ElapsedNow < config.week_5_threshold_days * HoursPerDay)
    => /\ week_5_metrics = None
       /\ metrics = None
       /\ metrics_file = None
       /\ n_evaluations = 0
       /\ n_decisions = 0
       /\ decision = "none"
       /\ pc \notin { "evaluate", "assign", "decide", "abort", "sys_exit" }

\* C2 witness: a line has been checked below the threshold
C2_Witness ==
    /\ pc = "read"
    /\ n_lines >= 1
    /\ ElapsedNow > 0
    /\ ElapsedNow < config.week_5_threshold_days * HoursPerDay
    /\ week_5_metrics = None

\* C3: the decision is NO-GO exactly when a failure condition holds
\* (authenticity < min_authenticity_score, cost > max_cost_usd, best
\* validation loss > max_val_loss); the failure list then holds one reason
\* for every condition that holds, and a failure overrides any warning.
\* Authenticity 0.30, cost $500, loss 3.0 under (0.35, $600, 3.5) is NO-GO
\* with an authenticity reason.
C3_NoGoIffFailure ==
    Decided =>
        LET m  == metrics[1]
            th == config.go_nogo_thresholds
            fa == m.estimated_authenticity < th.min_authenticity_score
            fc == m.cost_usd > th.max_cost_usd
            fv == m.best_val_loss > th.max_val_loss
        IN /\ (decision = "NO-GO") <=> (fa \/ fc \/ fv)
           /\ fa <=> ("Authenticity" \in Range(failures))
           /\ fc <=> ("Cost" \in Range(failures))
           /\ fv <=> ("Val loss" \in Range(failures))
           /\ Len(failures) = Cardinality(Range(failures))
           /\ (failures # << >> /\ warnings # << >>) => decision = "NO-GO"
           /\ (/\ th = DefaultThresholds
               /\ m.estimated_authenticity = 30
               /\ m.cost_usd = 50000
               /\ m.best_val_loss = 30)
              => (decision = "NO-GO" /\ failures = << "Authenticity" >>)

\* C3 witness: two failures and a warning of the third metric give NO-GO
C3_Witness ==
    /\ decision = "NO-GO"
    /\ failures = << "Authenticity", "Val loss" >>
    /\ warnings = << "Cost approaching budget limit" >>
    /\ config.go_nogo_thresholds = DefaultThresholds

\* C4: the decision is CONDITIONAL-GO exactly when no failure condition
\* holds and a warning holds, the warnings being authenticity at or above the
\* minimum but less than 0.05 above it, and cost above 80% of max_cost_usd but
\* not above it; a metric whose failure condition holds records no warning.
\* Authenticity 0.50, cost $550, loss 2.0 under (0.35, $600, 3.5) is
\* CONDITIONAL-GO with the budget warning.
C4_ConditionalGoIffWarning ==
    Decided =>
        LET m  == metrics[1]
            th == config.go_nogo_thresholds
            fa == m.estimated_authenticity < th.min_authenticity_score
            fc == m.cost_usd > th.max_cost_usd
            fv == m.best_val_loss > th.max_val_loss
            wa == /\ m.estimated_authenticity >= th.min_authenticity_score
                  /\ m.estimated_authenticity < th.min_authenticity_score + 5
            wc == /\ 10 * m.cost_usd > 8 * th.max_cost_usd
                  /\ m.cost_usd <= th.max_cost_usd
        IN /\ (decision = "CONDITIONAL-GO") <=> (~(fa \/ fc \/ fv) /\ (wa \/ wc))
           /\ wa <=> ("Authenticity borderline" \in Range(warnings))
           /\ wc <=> ("Cost approaching budget limit" \in Range(warnings))
           /\ fa => "Authenticity borderline" \notin Range(warnings)
           /\ fc => "Cost approaching budget limit" \notin Range(warnings)
           /\ (/\ th = DefaultThresholds
               /\ m.estimated_authenticity = 50
               /\ m.cost_usd = 55000
               /\ m.best_val_loss = 20)
              => /\ decision = "CONDITIONAL-GO"
                 /\ warnings = << "Cost approaching budget limit" >>

\* C4 witness: the example of the claim
C4_Witness ==
    /\ decision = "CONDITIONAL-GO"
    /\ config.go_nogo_thresholds = DefaultThresholds
    /\ metrics[1].estimated_authenticity = 50
    /\ metrics[1].cost_usd = 55000
    /\ metrics[1].best_val_loss = 20
    /\ warnings = << "Cost approaching budget limit" >>

\* C5: the decision is GO exactly when the failure list and the warning list
\* are both empty; authenticity 0.60, cost $100, loss 1.5 under
\* (0.35, $600, 3.5) is GO with no failure and no warning reason.
C5_GoIffNoReasons ==
    Decided =>
        /\ (decision = "GO") <=> (failures = << >> /\ warnings = << >>)
        /\ decision \in { "GO", "CONDITIONAL-GO", "NO-GO" }
        /\ (/\ config.go_nogo_thresholds = DefaultThresholds
            /\ metrics[1].estimated_authenticity = 60
            /\ metrics[1].cost_usd = 10000
            /\ metrics[1].best_val_loss = 15)
           => (decision = "GO" /\ failures = << >> /\ warnings = << >>)

\* C5 witness: the example of the claim
C5_Witness ==
    /\ decision = "GO"
    /\ config.go_nogo_thresholds = DefaultThresholds
    /\ metrics[1].estimated_authenticity = 60
    /\ metrics[1].cost_usd = 10000
    /\ metrics[1].best_val_loss = 15
    /\ failures = << >>
    /\ warnings = << >>

\* C7: whenever the decision is NO-GO the orchestrator stops the Training Job
\* before it exits: no run ends through the NO-GO exit with the child still
\* running.
C7_NoGoStopsChild ==
    (pc = "exited" /\ decision = "NO-GO" /\ exit_code = Some(1))
        => child = "exited"

\* C8 as stated: at the end of a run the abort report exists exactly when the
\* decision was NO-GO.
C8_ReportIffNoGo ==
    pc = "exited" => ((abort_report # None) <=> (decision = "NO-GO"))

\* C8, amended: an abort report exists only when the decision was NO-GO; once
\* the Training Job has been launched the process exits with status 1 only
\* after a NO-GO decision and with the report already written; a run that
\* decided NO-GO and received no operator interrupt ends with the report
\* written and status 1.
C8_ReportOnlyAndBeforeExit ==
    /\ (abort_report # None) => decision = "NO-GO"
    /\ (exit_code = Some(1) /\ child # "none")
          => (decision = "NO-GO" /\ abort_report # None)
    /\ (pc = "exited" /\ decision = "NO-GO" /\ ~interrupt_received)
          => (abort_report # None /\ exit_code = Some(1))

\* C8 witness: the NO-GO exit, with the report on disk
C8_Witness ==
    /\ pc = "exited"
    /\ decision = "NO-GO"
    /\ exit_code = Some(1)
    /\ abort_report # None
    /\ abort_report[1].metrics = metrics[1]

\* the positions of the for loop once the milestone is behind
LoopPositions == { "read", "parse", "check" }

\* C9 as stated: after GO or CONDITIONAL-GO the loop is left only when the
\* child's stream has ended.
C9_ConsumesUntilStreamEnds ==
    (pc = "exited" /\ decision \in { "GO", "CONDITIONAL-GO" }) => child = "exited"

\* C9, amended: after a GO or CONDITIONAL-GO decision the supervisor leaves
\* the consumption loop only when the child's stream has ended or an operator
\* interrupt arrives; and while the decision is GO, CONDITIONAL-GO or not yet
\* made, no step of the orchestrator ends the Training Job.
C9_ContinuesAfterGo ==
    /\ [][ (decision \in { "GO", "CONDITIONAL-GO" } /\ pc \in LoopPositions
                /\ pc' \notin LoopPositions)
             => \/ (pc = "read" /\ child = "exited" /\ pc' = "wait")
                \/ (pc' = "interrupted" /\ interrupt_received') ]_vars
    /\ [][ (decision' # "NO-GO" /\ child = "running" /\ child' # "running")
             => pc' = pc ]_vars
    /\ [](decision \in { "GO", "CONDITIONAL-GO" }
             => pc \in LoopPositions \cup { "wait", "interrupted", "exited" })

\* C9 witness: a run that went on after CONDITIONAL-GO, consumed a further
\* metric line and ended with the child's stream
C9_Witness ==
    /\ pc = "exited"
    /\ decision = "CONDITIONAL-GO"
    /\ ~interrupt_received
    /\ child = "exited"
    /\ exit_code = Some(0)
    /\ week_5_metrics[1].global_step # global_step

\* the validation losses sent to the sink so far, in order
Extracted == [ i \in DOMAIN writer |-> writer[i][2] ]

SetMin(S) == CHOOSE x \in S : \A y \in S : x <= y

\* C10: best_val_loss never increases and, after every line, is the minimum
\* of the validation losses extracted so far (+infinity before the first);
\* after 4.0, 3.2, 3.6, 2.9 it is 2.9.
C10_BestIsMinimum ==
    /\ [](best_val_loss = SetMin({ Inf } \cup Range(Extracted)))
    /\ [][best_val_loss' <= best_val_loss]_vars
    /\ [](Extracted = << 40, 32, 36, 29 >> => best_val_loss = 29)

\* C10 witness: the four values of the claim have been extracted
C10_Witness ==
    /\ Extracted = << 40, 32, 36, 29 >>
    /\ best_val_loss = 29
    /\ pc = "read"

\* C11: whatever the line, parse_training_metrics returns to the loop: the step
\* that leaves the parser goes to the milestone check and never to an
\* exception handler (an operator interrupt apart), and a line whose
\* conversion raises keeps the fields assigned before the failing part.
C11_ParserNeverRaises ==
    [][(pc = "parse" /\ pc' # "parse" /\ ~interrupt_received')
          => (/\ pc' = "check"
              /\ ~LineMatches(line[1]) =>
                    UNCHANGED << current_epoch, global_step, best_val_loss, writer >>)]_vars

\* C11 witness: the first line was "Epoch 3/20 | Step abc | ...", its int()
\* raised after the epoch was assigned, and the loop has read a second line
C11_Witness ==
    /\ pc = "parse"
    /\ n_lines = 2
    /\ current_epoch = 3
    /\ global_step = 0
    /\ writer = << >>

\* C12: an exception raised while a line is processed does not end the
\* consumption loop: when make_go_nogo_decision raises (a threshold key is
\* missing), control stays in the for loop.
C12_ExceptionKeepsLoop ==
    [][(/\ pc = "decide"
        /\ ~ThresholdsComplete(config.go_nogo_thresholds)
        /\ pc' # "decide"
        /\ ~interrupt_received')
          => pc' \in LoopPositions]_vars

C14_OnlyCheckpointAfterInterrupt ==
    [][interrupt_received
          => /\ UNCHANGED << line, n_lines, current_epoch, global_step,
                             best_val_loss, writer, week_5_metrics, metrics,
                             metrics_file, decision, abort_report,
                             n_evaluations, n_decisions, training_result >>
             /\ pc' # pc => /\ pc = "interrupted"
                            /\ pc' = "exited"
                            /\ checkpoint' # None
                            /\ checkpoint'[1].interrupted]_vars

\* C14 witness: the interrupt arrived after a metric line was read and before
\* it was parsed; the process has exited, the line was never parsed and the
\* child is still running
C14_Witness ==
    /\ pc = "exited"
    /\ interrupt_received
    /\ line = Some(LogLine(1, 100, 40))
    /\ writer = << >>
    /\ global_step = 0
    /\ child = "running"
    /\ checkpoint # None

\* the training script was not found: start_training ran, nothing was launched
\* and no handler saved a checkpoint
ScriptWasMissing ==
    pc = "exited" /\ training_start_time # None /\ child = "none" /\ checkpoint = None

\* an exception left the for loop and was handled by `except Exception`
ExceptionEscaped == pc = "exited" /\ checkpoint # None /\ ~interrupt_received

\* the constructor raised while loading the configuration
ConfigLoadFailed == pc = "exited" /\ ~ConfigLoads(config_file)

\* the run ended in the NO-GO escalation
Escalated == pc = "exited" /\ abort_report # None /\ ~interrupt_received

\* C15: the exit status is 1 when the run ended in the NO-GO escalation or in
\* an orchestrator error (configuration load failure, missing training script,
\* exception escaping the monitoring loop) and 0 when the run completed.
C15_ExitStatus ==
    /\ (Escalated \/ ConfigLoadFailed \/ ScriptWasMissing \/ ExceptionEscaped)
          => exit_code = Some(1)
    /\ (pc = "exited" /\ training_result # "none") => exit_code = Some(0)

\* C16: the exit status of the NO-GO escalation is produced by no other
\* outcome: a process that ends with status 1 has decided NO-GO.
C16_EscalationStatusDistinct ==
    (pc = "exited" /\ exit_code = Some(1)) => decision = "NO-GO"

\* C17: the Training Job is launched at most once (a launched child is never
\* replaced and an exited child never runs again); the failure is logged
\* exactly for a nonzero return code, and a run whose child failed and that
\* was neither interrupted nor stopped at the milestone ends normally with the
\* failure logged.
C17_LaunchedOnce ==
    /\ [][(child # "none" => child' # "none")
           /\ (child = "exited" => child' = "exited")]_vars
    /\ [](training_result = "failed"
            => (returncode = Some(1) /\ pc = "exited" /\ exit_code = Some(0)))
    /\ []((/\ pc = "exited"
           /\ returncode = Some(1)
           /\ checkpoint = None
           /\ abort_report = None)
            => (training_result = "failed" /\ exit_code = Some(0)))

\* C17 witness: the child ended with code 1 after two lines; the failure was
\* logged and the orchestrator returned
C17_Witness ==
    /\ pc = "exited"
    /\ n_lines = 2
    /\ returncode = Some(1)
    /\ training_result = "failed"
    /\ exit_code = Some(0)
    /\ child = "exited"

\* the configuration can be loaded and the effective configuration has every
\* threshold
ConfigValid(f) ==
    /\ ConfigLoads(f)
    /\ ThresholdsComplete(LoadConfig(CustomConfig(f)).go_nogo_thresholds)

\* C18: with a configuration that cannot be loaded or lacks a required field
\* the Training Job is never spawned.
C18_InvalidConfigNeverSpawns ==
    ~ConfigValid(config_file) => child = "none"

\* C19: once the configuration is loaded every key, the keys of the thresholds
\* sub-record included, has the override's value when the override specifies
\* it and the built-in default otherwise.
C19_OverrideOrDefault ==
    (pc # "main" /\ ConfigLoads(config_file))
        => LET c == CustomConfig(config_file) IN
           /\ \A k \in { "gpu_cost_per_hour", "week_5_threshold_days" } :
                 config[k] = IF k \in DOMAIN c THEN c[k] ELSE DefaultConfig[k]
           /\ \A k \in ThresholdKeys :
                 /\ k \in DOMAIN config.go_nogo_thresholds
                 /\ config.go_nogo_thresholds[k] =
                        IF /\ "go_nogo_thresholds" \in DOMAIN c
                           /\ k \in DOMAIN c.go_nogo_thresholds
                        THEN c.go_nogo_thresholds[k]
                        ELSE DefaultThresholds[k]

\* C20: loading returns the record that was last saved, field by field, and
\* none when no checkpoint was saved.
C20_SaveLoadRoundTrip ==
    LoadCheckpoint = checkpoint

\* C21: at the start of a run invoked with --resume while a checkpoint exists,
\* epoch, step, best validation loss and the milestone snapshot are those of
\* the checkpoint; otherwise they have their initial values.
C21_ResumeRestoresState ==
    pc = "start"
        => IF resume /\ checkpoint # None
           THEN /\ current_epoch = checkpoint[1].current_epoch
                /\ global_step = checkpoint[1].global_step
                /\ best_val_loss = checkpoint[1].best_val_loss
                /\ week_5_metrics = checkpoint[1].week_5_metrics
           ELSE /\ current_epoch = 0
                /\ global_step = 0
                /\ best_val_loss = Inf
                /\ week_5_metrics = None

\* a complete checkpoint record: every field of the record is in the file
CompleteRecord(file) ==
    file # None /\ DOMAIN file[1] = DOMAIN PriorCheckpoint

\* C22: at every instant of a run that started with a saved checkpoint, the
\* checkpoint file holds a complete record, the previous one or the new one.
C22_CheckpointAlwaysComplete ==
    CompleteRecord(checkpoint)

\* C23: a run that consumed output lines and ended normally, without
\* interrupt or error, has written the checkpoint record at least once.
C23_CheckpointWrittenDuringRun ==
    (pc = "exited" /\ training_result # "none" /\ n_lines > 0)
        => checkpoint # None

\* C24: the snapshot held in state never changes once created, whatever later
\* lines do to epoch, step and best validation loss; and once a decision has
\* been taken there was one evaluation, and the state's snapshot, the persisted
\* milestone-metrics record, the metrics of the abort report and the snapshot
\* of any checkpoint all equal the snapshot passed to the decision.
C24_SingleSnapshot ==
    /\ [][week_5_metrics # None => week_5_metrics' = week_5_metrics]_vars
    /\ [](n_decisions > 0
            => /\ n_evaluations = 1
               /\ week_5_metrics = metrics
               /\ metrics_file = metrics
               /\ abort_report # None => abort_report[1].metrics = metrics[1]
               /\ checkpoint # None => checkpoint[1].week_5_metrics = metrics)

\* C24 witness: after a GO or CONDITIONAL-GO decision a later line improved
\* the best validation loss, the run was then interrupted, and the checkpoint
\* carries the snapshot of the decision
C24_Witness ==
    /\ pc = "exited"
    /\ decision \in { "GO", "CONDITIONAL-GO" }
    /\ best_val_loss < metrics[1].best_val_loss
    /\ checkpoint # None
    /\ checkpoint[1].week_5_metrics = metrics
    /\ metrics_file = metrics

\* clamp(x, lo, hi)
Clamp(x, lo, hi) == IF x < lo THEN lo ELSE IF x > hi THEN hi ELSE x

\* C25: the authenticity proxy of the snapshot is clamp(1 - best_val_loss/10,
\* 0, 1) (in hundredths: clamp(100 - best, 0, 100)) and so lies in [0, 1].
C25_AuthenticityClamped ==
    metrics # None
        => /\ metrics[1].estimated_authenticity
                 = Clamp(100 - metrics[1].best_val_loss, 0, 100)
           /\ metrics[1].estimated_authenticity >= 0
           /\ metrics[1].estimated_authenticity <= 100

\* C26: the cost of the snapshot is its elapsed hours times the hourly rate,
\* the elapsed hours being a clock reading of the evaluation minus the start
\* timestamp; 10 hours at 1.30 per hour cost 13.00.
C26_CostIsHoursTimesRate ==
    metrics # None
        => LET m == metrics[1] IN
           /\ \E t \in TimePoints :
                 /\ t <= now
                 /\ m.elapsed_hours = t - training_start_time[1]
           /\ m.cost_usd = m.elapsed_hours * config.gpu_cost_per_hour
           /\ (m.elapsed_hours = 10 /\ config.gpu_cost_per_hour = 130)
                 => m.cost_usd = 1300

\* C26 witness: a snapshot taken 10 hours after the start at 1.30 per hour,
\* with cost 13.00
C26_Witness ==
    /\ metrics # None
    /\ metrics[1].elapsed_hours = 10
    /\ config.gpu_cost_per_hour = 130
    /\ metrics[1].cost_usd = 1300

\* C27: whenever make_go_nogo_decision is invoked, and from then on through
\* any abort, week_5_metrics.json already holds the snapshot that is passed to
\* the decision.
C27_MetricsFileBeforeDecision ==
    /\ [][n_decisions' # n_decisions
             => (metrics_file # None /\ metrics_file = metrics)]_vars
    /\ []((pc \in { "decide", "abort", "sys_exit" } \/ n_decisions > 0)
            => (metrics_file # None /\ metrics_file = metrics))

\* C27 witness: NO-GO has been decided, abort_training is about to run and the
\* milestone-metrics record is on disk
C27_Witness ==
    /\ pc = "abort"
    /\ decision = "NO-GO"
    /\ n_decisions = 1
    /\ metrics_file # None
    /\ metrics_file = metrics

\* C28: a line is read only when the handling of the previous one is over, it
\* goes to the parser first and to the milestone check next; the snapshot
\* taken when a metric line triggers the milestone carries the epoch, the step
\* and the validation loss of that line.
C28_LineHandledInOrder ==
    /\ [][n_lines' # n_lines
             => (pc = "read" /\ pc' = "parse" /\ n_lines' = n_lines + 1)]_vars
    /\ [][(pc' = "parse" /\ pc # "parse") => pc = "read"]_vars
    /\ [][(pc' = "check" /\ pc # "check") => pc = "parse"]_vars
    /\ []((pc = "assign" /\ line[1] \in LogLines)
            => /\ metrics[1].current_epoch = line[1][1].v
               /\ metrics[1].global_step = line[1][2].v
               /\ metrics[1].best_val_loss <= line[1][4].v
               /\ writer[Len(writer)] = << line[1][2].v, line[1][4].v >>)

\* C28 witness: the second line, "Epoch 2/20 | Step 400 | ... | Val Loss: 2.9",
\* triggered the milestone and the snapshot holds its values
C28_Witness ==
    /\ pc = "assign"
    /\ n_lines = 2
    /\ line = Some(LogLine(2, 400, 29))
    /\ metrics[1].current_epoch = 2
    /\ metrics[1].global_step = 400
    /\ metrics[1].best_val_loss = 29

\* C29: when the extraction of some segment of a line fails, the call of
\* parse_training_metrics leaves epoch, step and best validation loss as they
\* were and sends nothing to the metrics sink.
C29_FailedLineIgnoredWhole ==
    [][(pc = "parse" /\ pc' = "check" /\ ConversionRaises(line[1]))
          => UNCHANGED << current_epoch, global_step, best_val_loss, writer >>]_vars

\* C30: every well-formed Epoch, Step or Val Loss segment of a line is
\* extracted by the call of parse_training_metrics, whatever the other
\* segments of the line are.
C30_IndependentExtraction ==
    [][(pc = "parse" /\ pc' = "check")
          => \A i \in DOMAIN line[1] :
                LET p == line[1][i] IN
                p.ok => /\ p.label = "Epoch" => current_epoch' = p.v
                        /\ p.label = "Step" => global_step' = p.v
                        /\ p.label = "Val Loss" => best_val_loss' <= p.v]_vars

\* the positions of the well-formed segments of line l with the given label
SegmentsOf(l, label) == { i \in DOMAIN l : l[i].label = label /\ l[i].ok }

C32_EvaluationOnlyOnLine ==
    /\ [][(pc' = "evaluate" /\ pc # "evaluate")
             => (pc = "check" /\ line # None /\ n_lines > 0
                 /\ now' - training_start_time[1]
                       >= config.week_5_threshold_days * HoursPerDay)]_vars
    /\ [][n_evaluations' # n_evaluations => pc = "evaluate"]_vars
    /\ [][n_decisions' # n_decisions => (pc = "decide" /\ n_evaluations = 1)]_vars
    /\ []((pc \in { "read", "wait", "exited" } /\ n_evaluations = 0)
            => (metrics = None /\ week_5_metrics = None /\ decision = "none"))

\* C32 witness: with a threshold of one day the child printed a line on the
\* first day and was silent afterwards; the operator interrupted the run a day
\* or more after the start (the checkpoint's elapsed time has reached the
\* threshold) and no snapshot or decision was ever made
C32_Witness ==
    /\ pc = "exited"
    /\ interrupt_received
    /\ config.week_5_threshold_days = 1
    /\ n_lines = 1
    /\ checkpoint # None
    /\ checkpoint[1].elapsed_time >= HoursPerDay
    /\ n_evaluations = 0
    /\ metrics = None
    /\ decision = "none"

\* C33: under the built-in configuration a snapshot is taken at 35 days or
\* more, its cost is at least 35 x 24 x 1.30 = 1092, above the budget of 600,
\* and every decision is NO-GO with the cost among the failures.
C33_DefaultAlwaysNoGo ==
    (config_file = ConfigFile(FALSE, TRUE, << >>) /\ metrics # None)
        => /\ metrics[1].elapsed_hours >= 35 * HoursPerDay
           /\ metrics[1].cost_usd >= 109200
           /\ Decided => /\ decision = "NO-GO"
                          /\ "Cost" \in Range(failures)

\* C33 witness: default configuration, best validation loss 2.9 (authenticity
\* 0.71): NO-GO with the cost as the only failure
C33_Witness ==
    /\ config_file = ConfigFile(FALSE, TRUE, << >>)
    /\ decision = "NO-GO"
    /\ metrics[1].best_val_loss = 29
    /\ failures = << "Cost" >>

\* C34: a snapshot taken before any validation loss was extracted has
\* best_val_loss = +infinity and authenticity 0, and its decision is NO-GO
\* with the validation loss among the failures, whatever the cost and the
\* (finite) thresholds.
C34_NoLossMeansNoGo ==
    /\ (metrics # None /\ writer = << >>) => metrics[1].best_val_loss = Inf
    /\ (metrics # None /\ metrics[1].best_val_loss = Inf)
          => /\ metrics[1].estimated_authenticity = 0
             /\ Decided => /\ decision = "NO-GO"
                            /\ "Val loss" \in Range(failures)

\* C34 witness: no loss extracted, thresholds that no finite value breaches
\* (min authenticity 0, max validation loss 99999.9): still NO-GO
C34_Witness ==
    /\ Decided
    /\ writer = << >>
    /\ metrics[1].best_val_loss = Inf
    /\ metrics[1].estimated_authenticity = 0
    /\ config.go_nogo_thresholds.max_val_loss = 999999
    /\ decision = "NO-GO"
    /\ failures = << "Val loss" >>

\* C36: with the default thresholds and a snapshot built by the orchestrator,
\* an authenticity below 0.40 (failure below 0.35, warning below 0.40) comes
\* with a best validation loss above 6.0 and a NO-GO decision, and a
\* CONDITIONAL-GO decision has the cost warning as its only warning.
C36_AuthenticitySubsumed ==
    (Decided /\ config.go_nogo_thresholds = DefaultThresholds)
        => /\ metrics[1].estimated_authenticity < 40
                => /\ metrics[1].best_val_loss > 60
                   /\ decision = "NO-GO"
                   /\ "Val loss" \in Range(failures)
           /\ decision = "CONDITIONAL-GO"
                => warnings = << "Cost approaching budget limit" >>

\* C36 witness: default thresholds, best validation loss 6.2 (authenticity
\* 0.38, in the warning band): the decision is NO-GO through the validation
\* loss and no authenticity failure is recorded
C36_Witness ==
    /\ Decided
    /\ config.go_nogo_thresholds = DefaultThresholds
    /\ metrics[1].best_val_loss = 62
    /\ metrics[1].estimated_authenticity = 38
    /\ decision = "NO-GO"
    /\ "Authenticity" \notin Range(failures)

\* C35: in a run whose child prints only the progress lines of
\* train_musicgen.py, epoch, step and best validation loss keep their initial
\* values and the metrics sink receives nothing.
C35_ProgressLinesChangeNothing ==
    /\ current_epoch = 0
    /\ global_step = 0
    /\ best_val_loss = Inf
    /\ writer = << >>

\* C35 witness: three progress lines handed to the parser, the last one of
\* epoch 2, and the state is still the initial one
C35_Witness ==
    /\ pc = "check"
    /\ n_lines = 3
    /\ line = Some(ProgressLine(2))
    /\ current_epoch = 0
    /\ writer = << >>

----------------------------------------------------------------------------
(***************************************************************************)
(* The HTTP service, ai-service/main.py.                                   *)
(*                                                                         *)
(* Every endpoint and every background task is a coroutine of one asyncio  *)
(* event loop: a coroutine runs alone from one await to the next.  `loop`   *)
(* is the job whose task is running (0 when the loop is free); a task is   *)
(* modelled statement by statement, and the other coroutines run only      *)
(* while the loop is free.  Progress is in tenths (0.3 -> 3, 1.0 -> 10).   *)
(* uuid4 job ids are 1, 2, ... in order of creation, so `jobs` and `tasks` *)
(* are sequences indexed by job id.                                        *)
(***************************************************************************)

\* everything of the orchestrator, which the service never touches
orchestrator ==
    << pc, config, training_start_time, now, current_epoch, global_step,
       best_val_loss, week_5_metrics, line, metrics, decision, failures,
       warnings, child, returncode, writer, metrics_file, abort_report,
       checkpoint, exit_code, n_lines, n_evaluations, n_decisions,
       interrupt_received, config_file, resume, training_result >>

\* jobs created in one behaviour
MaxJobs == 2

\* values of datetime.now()
Instants == { 1, 2 }

\* values of str(e) for the exceptions the models raise; a bare assert gives ""
Messages == { "", "CUDA out of memory" }

\* Job(job_id=job_id, status=JobStatus.QUEUED, created_at=datetime.now())
Job(id, t) ==
    [ job_id |-> id, status |-> "queued", progress |-> 0, result_url |-> None,
      error |-> None, created_at |-> t, completed_at |-> None ]

\* background_tasks.add_task(process_..., job_id=job_id, ...)
Task(kind) == [ kind |-> kind, at |-> "scheduled", exc |-> None ]

JobIds == 1..Len(jobs)

\* task j is at position p with the event loop in its hands
Running(j, p) == j \in JobIds /\ loop = j /\ tasks[j].at = p

\* the endpoint's body from the creation of the job to the return
Submit(kind) ==
    /\ loop = 0
    /\ Len(jobs) < MaxJobs
    /\ \E t \in Instants : jobs' = Append(jobs, Job(Len(jobs) + 1, t))
    /\ tasks' = Append(tasks, Task(kind))
    /\ UNCHANGED << loop, response, models_ready, orchestrator >>

\* POST /generate
GenerateMusic == Submit("generation")

\* POST /separate-stems
SeparateStems == Submit("separation")

\* job = jobs[job_id]; job.status = JobStatus.PROCESSING
StartTask(j) ==
    /\ j \in JobIds
    /\ loop = 0
    /\ tasks[j].at = "scheduled"
    /\ jobs' = [jobs EXCEPT ![j].status = "processing"]
    /\ tasks' = [tasks EXCEPT ![j].at = "try"]
    /\ loop' = j
    /\ UNCHANGED << response, models_ready, orchestrator >>

\* real branch, up to job.progress = 0.3 (set_generation_params, or load
\* and resample)
Prepare(j) ==
    /\ Running(j, "try")
    /\ models_ready
    /\ jobs' = [jobs EXCEPT ![j].progress = 3]
    /\ tasks' = [tasks EXCEPT ![j].at = "infer"]
    /\ UNCHANGED << loop, response, models_ready, orchestrator >>

\* musicgen.generate / apply_model, then job.progress = 0.8 / 0.7
Infer(j) ==
    /\ Running(j, "infer")
    /\ jobs' = [jobs EXCEPT ![j].progress =
                    IF tasks[j].kind = "generation" THEN 8 ELSE 7]
    /\ tasks' = [tasks EXCEPT ![j].at = "save"]
    /\ UNCHANGED << loop, response, models_ready, orchestrator >>

\* torchaudio.save of the audio, or of the four stems
SaveOutput(j) ==
    /\ Running(j, "save")
    /\ tasks' = [tasks EXCEPT ![j].at = "finish"]
    /\ UNCHANGED << jobs, loop, response, models_ready, orchestrator >>

\* mock branch: await asyncio.sleep(...) hands the event loop back
Sleep(j) ==
    /\ Running(j, "try")
    /\ ~models_ready
    /\ tasks' = [tasks EXCEPT ![j].at = "sleeping"]
    /\ loop' = 0
    /\ UNCHANGED << jobs, response, models_ready, orchestrator >>

\* the sleep is over: generation goes on to output_path.touch(), separation
\* builds its dict of stem paths
Wake(j) ==
    /\ j \in JobIds
    /\ loop = 0
    /\ tasks[j].at = "sleeping"
    /\ tasks' = [tasks EXCEPT ![j].at =
                    IF tasks[j].kind = "generation" THEN "touch" ELSE "finish"]
    /\ loop' = j
    /\ UNCHANGED << jobs, response, models_ready, orchestrator >>

\* output_path.touch()
Touch(j) ==
    /\ Running(j, "touch")
    /\ tasks' = [tasks EXCEPT ![j].at = "finish"]
    /\ UNCHANGED << jobs, loop, response, models_ready, orchestrator >>

\* the statements of the try block that call into the models or the file
\* system
RaisingPositions == { "try", "infer", "save", "touch" }

\* one of them raises an Exception
Raises(j) ==
    /\ j \in JobIds
    /\ loop = j
    /\ tasks[j].at \in RaisingPositions
    /\ tasks[j].at = "try" => models_ready
    /\ \E m \in Messages :
        tasks' = [tasks EXCEPT ![j].at = "except", ![j].exc = Some(m)]
    /\ UNCHANGED << jobs, loop, response, models_ready, orchestrator >>

\* the sleeping task is cancelled: CancelledError is not an Exception, the
\* handler of the task does not run
Cancelled(j) ==
    /\ j \in JobIds
    /\ loop = 0
    /\ tasks[j].at = "sleeping"
    /\ tasks' = [tasks EXCEPT ![j].at = "cancelled"]
    /\ UNCHANGED << jobs, loop, response, models_ready, orchestrator >>

\* job.progress = 1.0
SetProgressDone(j) ==
    /\ Running(j, "finish")
    /\ jobs' = [jobs EXCEPT ![j].progress = 10]
    /\ tasks' = [tasks EXCEPT ![j].at = "set_status"]
    /\ UNCHANGED << loop, response, models_ready, orchestrator >>

\* job.status = JobStatus.COMPLETED
SetCompleted(j) ==
    /\ Running(j, "set_status")
    /\ jobs' = [jobs EXCEPT ![j].status = "completed"]
    /\ tasks' = [tasks EXCEPT ![j].at = "set_result"]
    /\ UNCHANGED << loop, response, models_ready, orchestrator >>

\* f"/download/{job_id}.wav" (a str) or stem_paths (a dict)
Result(kind, j) ==
    [ type |-> IF kind = "generation" THEN "str" ELSE "dict", of |-> j ]

\* job.result_url = ...
SetResultUrl(j) ==
    /\ Running(j, "set_result")
    /\ jobs' = [jobs EXCEPT ![j].result_url = Some(Result(tasks[j].kind, j))]
    /\ tasks' = [tasks EXCEPT ![j].at = "set_time"]
    /\ UNCHANGED << loop, response, models_ready, orchestrator >>

\* job.completed_at = datetime.now(); the task returns
SetCompletedAt(j) ==
    /\ Running(j, "set_time")
    /\ \E t \in Instants : jobs' = [jobs EXCEPT ![j].completed_at = Some(t)]
    /\ tasks' = [tasks EXCEPT ![j].at = "done"]
    /\ loop' = 0
    /\ UNCHANGED << response, models_ready, orchestrator >>

\* except Exception as e: job.status = JobStatus.FAILED
SetFailed(j) ==
    /\ Running(j, "except")
    /\ jobs' = [jobs EXCEPT ![j].status = "failed"]
    /\ tasks' = [tasks EXCEPT ![j].at = "set_error"]
    /\ UNCHANGED << loop, response, models_ready, orchestrator >>

SetError_Skipped(j) ==
    /\ Running(j, "set_error")
    /\ tasks' = [tasks EXCEPT ![j].at = "done"]
    /\ loop' = 0
    /\ UNCHANGED << jobs, response, models_ready, orchestrator >>

\* job.error = str(e); the task returns
SetError(j) ==
    /\ Running(j, "set_error")
    /\ jobs' = [jobs EXCEPT ![j].error = tasks[j].exc]
    /\ tasks' = [tasks EXCEPT ![j].at = "done"]
    /\ loop' = 0
    /\ UNCHANGED << response, models_ready, orchestrator >>

\* int((1 - job.progress) * 60) in IEEE doubles: 1 - 0.8 is a little less
\* than 0.2, so the product truncates to 11
EstimatedRemaining(progress) ==
    CASE progress = 3 -> 42
      [] progress = 7 -> 18
      [] progress = 8 -> 11
      [] progress = 10 -> 0
      [] OTHER -> 60

IsType(result, type) == result # None /\ result[1].type = type

\* JobStatusResponse(...)
StatusResponse(job) ==
    [ job_id |-> job.job_id,
      status |-> job.status,
      progress |-> job.progress,
      result_url |-> IF IsType(job.result_url, "str") THEN job.result_url ELSE None,
      stems |-> IF IsType(job.result_url, "dict") THEN job.result_url ELSE None,
      error |-> job.error,
      estimated_remaining |->
          IF job.status = "processing" /\ job.progress > 0
          THEN Some(EstimatedRemaining(job.progress)) ELSE None ]

\* GET /status/{job_id}
GetJobStatus(id) ==
    /\ loop = 0
    /\ response' = IF id \in JobIds
                   THEN Some([ code |-> 200, body |-> Some(StatusResponse(jobs[id])) ])
                   ELSE Some([ code |-> 404, body |-> None ])
    /\ UNCHANGED << jobs, tasks, loop, models_ready, orchestrator >>

\* the service after startup_event: no job yet, the models loaded or not
InitService ==
    /\ Fresh
    /\ config_file = ConfigFile(FALSE, TRUE, << >>)
    /\ resume = FALSE
    /\ checkpoint = None
    /\ jobs = << >>
    /\ tasks = << >>
    /\ loop = 0
    /\ response = None
    /\ models_ready \in BOOLEAN

NextService ==
    \/ GenerateMusic
    \/ SeparateStems
    \/ \E j \in 1..MaxJobs :
            \/ StartTask(j)
            \/ Prepare(j)
            \/ Infer(j)
            \/ SaveOutput(j)
            \/ Sleep(j)
            \/ Wake(j)
            \/ Touch(j)
            \/ Raises(j)
            \/ Cancelled(j)
            \/ SetProgressDone(j)
            \/ SetCompleted(j)
            \/ SetResultUrl(j)
            \/ SetCompletedAt(j)
            \/ SetFailed(j)
            \/ SetError(j)
            \/ GetJobStatus(j)

SpecService == InitService /\ [][NextService]_vars

\* the moves of JobStatus
StatusMoves ==
    { << "queued", "processing" >>, << "processing", "completed" >>,
      << "processing", "failed" >> }

\* what a coroutine other than the task of job j can see of it
Visible(j) == j \in JobIds /\ loop # j

\* C38: under every interleaving of the background tasks and the status
\* requests, the status of a job only moves queued -> processing ->
\* completed or failed, and completed and failed are never left; whenever
\* another coroutine can see a job, and in every answer of GET /status, a
\* completed job has progress 1.0, a result and a completion time, and a
\* failed job has its error set; a step that changes the entry of a job is
\* a step of that job's own task and changes no other entry.
C38_JobLifecycle ==
    /\ [][\A j \in JobIds :
            jobs'[j].status # jobs[j].status
                => << jobs[j].status, jobs'[j].status >> \in StatusMoves]_vars
    /\ [](\A j \in JobIds :
            Visible(j) =>
                /\ jobs[j].status = "completed"
                      => /\ jobs[j].progress = 10
                         /\ jobs[j].result_url # None
                         /\ jobs[j].completed_at # None
                /\ jobs[j].status = "failed" => jobs[j].error # None)
    /\ [](response # None /\ response[1].code = 200 =>
            LET r == response[1].body[1] IN
                /\ r.status = "completed"
                      => r.progress = 10 /\ (r.result_url # None \/ r.stems # None)
                /\ r.status = "failed" => r.error # None)
    /\ [][\A j \in JobIds :
            jobs'[j] # jobs[j]
                => /\ loop = j \/ loop' = j
                   /\ tasks'[j].at # tasks[j].at
                   /\ \A k \in JobIds \ {j} :
                        jobs'[k] = jobs[k] /\ tasks'[k] = tasks[k]]_vars

\* two jobs have run side by side: the first, put to sleep, completed after
\* the second had started; a status request saw the first one completed
\* while the second was still processing
C38_Witness ==
    /\ Len(jobs) = 2
    /\ jobs[1].status = "completed"
    /\ jobs[2].status = "processing"
    /\ tasks[2].at = "sleeping"
    /\ response # None
    /\ response[1].code = 200
    /\ response[1].body[1].job_id = 1
    /\ response[1].body[1].status = "completed"
    /\ response[1].body[1].result_url # None

====
